---------------------------- MODULE Spec2Model ----------------------------
(***************************************************************************)
(* Model of the validate-generator signing / verification engine           *)
(* (src/utils.c, src/sign.c, src/validate.c).                              *)
(*                                                                         *)
(* Bytes are integers 0..255.  A C string is a sequence of non-zero bytes; *)
(* its terminating NUL is implicit (CharAt past the end reads 0).  A path  *)
(* is a C string, so "/r/a" is <<47,114,47,97>>.                           *)
(***************************************************************************)
EXTENDS Integers, Sequences, FiniteSets, TLC

(***************************************************************************)
(* Bounds of the model.                                                    *)
(***************************************************************************)
MaxStrLen == 4
MaxPrefixLen == 3
MaxBlobPath == 2
MaxBlobContent == 2
MaxKeys == 3
MaxDirEntries == 3
MaxRoots == 2
MaxChanges == 1

(***************************************************************************)
(* Generic helpers.                                                        *)
(***************************************************************************)
SeqsUpTo(S, n) == UNION { [1..k -> S] : k \in 0..n }

IsPrefixSeq(p, s) == Len(p) <= Len(s) /\ SubSeq(s, 1, Len(p)) = p

NULL == <<-1>>

\* Byte values of the characters that the code names.
SLASH == 47
NUL == 0

\* *p for a C string s and a 1-based position i: the NUL terminator past the end.
CharAt(s, i) == IF i > Len(s) THEN NUL ELSE s[i]

\* The non-empty '/'-separated segments of a path.
RECURSIVE SegmentsFrom(_, _, _)
SegmentsFrom(s, i, cur) ==
  IF i > Len(s) THEN (IF cur = <<>> THEN <<>> ELSE <<cur>>)
  ELSE IF s[i] = SLASH
       THEN (IF cur = <<>> THEN <<>> ELSE <<cur>>) \o SegmentsFrom(s, i + 1, <<>>)
       ELSE SegmentsFrom(s, i + 1, Append(cur, s[i]))

Segments(s) == SegmentsFrom(s, 1, <<>>)

(***************************************************************************)
(* has_path_prefix, src/utils.c:404-434.                                   *)
(***************************************************************************)
RECURSIVE SkipSlashes(_, _)
SkipSlashes(s, i) == IF CharAt(s, i) = SLASH THEN SkipSlashes(s, i + 1) ELSE i

\* The element-compare loop (lines 421-427): <<matched, str position, prefix position>>.
RECURSIVE CompareElement(_, _, _, _)
CompareElement(str, i, prefix, j) ==
  IF CharAt(prefix, j) # NUL /\ CharAt(prefix, j) # SLASH
  THEN IF CharAt(str, i) # CharAt(prefix, j)
       THEN <<FALSE, i, j>>
       ELSE CompareElement(str, i + 1, prefix, j + 1)
  ELSE <<TRUE, i, j>>

\* A plausible slip: the "must be entire str path element" test (line 431) left out.
RECURSIVE HasPathPrefixNoBoundary(_, _, _, _)
HasPathPrefixNoBoundary(str, i0, prefix, j0) ==
  LET i == SkipSlashes(str, i0)
      j == SkipSlashes(prefix, j0)
  IN IF CharAt(prefix, j) = NUL THEN TRUE
     ELSE LET c == CompareElement(str, i, prefix, j)
          IN IF ~c[1] THEN FALSE
             ELSE HasPathPrefixNoBoundary(str, c[2], prefix, c[3])

RECURSIVE HasPathPrefixFrom(_, _, _, _)
HasPathPrefixFrom(str, i0, prefix, j0) ==
  LET i == SkipSlashes(str, i0)
      j == SkipSlashes(prefix, j0)
  IN IF CharAt(prefix, j) = NUL THEN TRUE
     ELSE LET c == CompareElement(str, i, prefix, j)
          IN IF ~c[1] THEN FALSE
             ELSE IF CharAt(str, c[2]) # SLASH /\ CharAt(str, c[2]) # NUL THEN FALSE
             ELSE HasPathPrefixFrom(str, c[2], prefix, c[3])

has_path_prefix(str, prefix) == HasPathPrefixFrom(str, 1, prefix, 1)

(***************************************************************************)
(* make_sign_blob, src/utils.c:172-199.  Types are the S_IFMT values.      *)
(***************************************************************************)
S_IFREG == "S_IFREG"
S_IFLNK == "S_IFLNK"
S_IFDIR == "S_IFDIR"
S_IFIFO == "S_IFIFO"
FileTypes == {S_IFREG, S_IFLNK, S_IFDIR, S_IFIFO}

\* The buffer after the tag byte, the two memcpy calls and the separator store.
BlobBuffer(tag, rel_path, content) ==
  LET rel_path_len == Len(rel_path)
      content_len == Len(content)
      to_sign_len == 1 + rel_path_len + 1 + content_len
  IN [i \in 1..to_sign_len |->
        IF i = 1 THEN tag
        ELSE IF i <= 1 + rel_path_len THEN rel_path[i - 1]
        ELSE IF i = 1 + rel_path_len + 1 THEN NUL
        ELSE content[i - (1 + rel_path_len + 1)]]

\* A plausible slip: the separator byte between path and content left out.
make_sign_blob_nosep(rel_path, type, content) ==
  IF type = S_IFREG THEN <<0>> \o rel_path \o content
  ELSE IF type = S_IFLNK THEN <<1>> \o rel_path \o content
  ELSE NULL

\* A plausible slip: the symlink branch stores the tag of a regular file.
make_sign_blob_onetag(rel_path, type, content) ==
  IF type = S_IFREG \/ type = S_IFLNK THEN BlobBuffer(0, rel_path, content) ELSE NULL

\* Returns the blob, or NULL ("Unsupported file type").
make_sign_blob(rel_path, type, content) ==
  IF type = S_IFREG THEN BlobBuffer(0, rel_path, content)
  ELSE IF type = S_IFLNK THEN BlobBuffer(1, rel_path, content)
  ELSE NULL


(***************************************************************************)
(* Keys and the signature primitive.  A key is a record: private key and   *)
(* public key of one pair share the id.  engine says what the EVP layer    *)
(* does with the key: "ok" (usable), "noinit" (EVP_DigestSignInit /        *)
(* EVP_DigestVerifyInit return 0: a key type that cannot sign) or "err"    *)
(* (EVP_DigestVerify returns a negative value).  The signature itself is   *)
(* the ideal one: deterministic, and valid for exactly one (key, blob).    *)
(***************************************************************************)
K1 == [id |-> 1, engine |-> "ok"]
K2 == [id |-> 2, engine |-> "ok"]
K3 == [id |-> 3, engine |-> "noinit"]
K4 == [id |-> 4, engine |-> "err"]
Keys == {K1, K2, K3, K4}
\* The NULL EVP_PKEY pointer.
NULL_KEY == [id |-> 0, engine |-> "null"]

\* The envelope magic (VALIDATOR_SIGNATURE_MAGIC, declared in utils.h).
VALIDATOR_SIGNATURE_MAGIC == <<86, 83>>
VALIDATOR_SIGNATURE_MAGIC_LEN == Len(VALIDATOR_SIGNATURE_MAGIC)

\* The bytes EVP_DigestSign writes for a key and a blob.
EVP_DigestSign(pkey, to_sign) == <<pkey.id>> \o to_sign

EVP_DigestSignInit(pkey) == IF pkey.engine = "ok" THEN 1 ELSE 0

EVP_DigestVerifyInit(key) == IF key.engine = "noinit" THEN 0 ELSE 1

\* 1: the signature is valid, 0: it is not, negative: the engine failed.
EVP_DigestVerify(key, sig, to_sign) ==
  IF key.engine = "err" THEN -1
  ELSE IF sig = EVP_DigestSign(key, to_sign) THEN 1 ELSE 0

(***************************************************************************)
(* validate_data, src/utils.c:201-251.  Returns [ret, error]: error is     *)
(* "none" when the GError is left unset.                                   *)
(***************************************************************************)
\* A plausible slip: the key loop stops at the first key that does not validate.
RECURSIVE VerifyLoopFirstOnly(_, _, _)
VerifyLoopFirstOnly(keys, sig, to_sign) ==
  IF keys = <<>> THEN [ret |-> FALSE, error |-> "none"]
  ELSE IF EVP_DigestVerifyInit(Head(keys)) = 0
       THEN [ret |-> FALSE, error |-> "Can't initialzie digest verify operation"]
       ELSE LET res == EVP_DigestVerify(Head(keys), sig, to_sign)
            IN IF res = 1 THEN [ret |-> TRUE, error |-> "none"]
               ELSE IF res # 0 THEN [ret |-> FALSE, error |-> "Error validating digest"]
               ELSE [ret |-> FALSE, error |-> "none"]

\* The loop over pub_keys (lines 226-250).
RECURSIVE VerifyLoop(_, _, _)
VerifyLoop(keys, sig, to_sign) ==
  IF keys = <<>> THEN [ret |-> FALSE, error |-> "none"]
  ELSE IF EVP_DigestVerifyInit(Head(keys)) = 0
       THEN [ret |-> FALSE, error |-> "Can't initialzie digest verify operation"]
       ELSE LET res == EVP_DigestVerify(Head(keys), sig, to_sign)
            IN IF res = 1 THEN [ret |-> TRUE, error |-> "none"]
               ELSE IF res # 0 THEN [ret |-> FALSE, error |-> "Error validating digest"]
               ELSE VerifyLoop(Tail(keys), sig, to_sign)

\* A plausible slip: the magic header of the envelope is not checked.
validate_data_nomagic(rel_path, type, content, sig, pub_keys) ==
  LET to_sign == make_sign_blob(rel_path, type, content)
  IN IF to_sign = NULL THEN [ret |-> FALSE, error |-> "Unsupported file type"]
     ELSE VerifyLoop(pub_keys,
                     SubSeq(sig, VALIDATOR_SIGNATURE_MAGIC_LEN + 1, Len(sig)), to_sign)

validate_data(rel_path, type, content, sig, pub_keys) ==
  IF Len(sig) < VALIDATOR_SIGNATURE_MAGIC_LEN
     \/ SubSeq(sig, 1, VALIDATOR_SIGNATURE_MAGIC_LEN) # VALIDATOR_SIGNATURE_MAGIC
  THEN [ret |-> FALSE, error |-> "Invalid signature"]
  ELSE LET body == SubSeq(sig, VALIDATOR_SIGNATURE_MAGIC_LEN + 1, Len(sig))
           to_sign == make_sign_blob(rel_path, type, content)
       IN IF to_sign = NULL THEN [ret |-> FALSE, error |-> "Unsupported file type"]
          ELSE VerifyLoop(pub_keys, body, to_sign)

(***************************************************************************)
(* sign_data, src/utils.c:370-402.  Returns the envelope, or NULL.         *)
(***************************************************************************)
\* A plausible slip: the envelope is written without the magic header.
sign_data_nomagic(type, rel_path, content, pkey) ==
  LET to_sign == make_sign_blob(rel_path, type, content)
  IN IF to_sign = NULL THEN NULL
     ELSE IF EVP_DigestSignInit(pkey) = 0 THEN NULL
     ELSE EVP_DigestSign(pkey, to_sign)

sign_data(type, rel_path, content, pkey) ==
  LET to_sign == make_sign_blob(rel_path, type, content)
  IN IF to_sign = NULL THEN NULL
     ELSE IF EVP_DigestSignInit(pkey) = 0 THEN NULL
     ELSE VALIDATOR_SIGNATURE_MAGIC \o EVP_DigestSign(pkey, to_sign)

(***************************************************************************)
(* load_pub_key and load_pub_keys_from_dir, src/utils.c:77-170.  A key     *)
(* directory is [open, entries]: open is the outcome of g_dir_open ("ok",  *)
(* "NOENT" or "ACCES") and entries the names in g_dir_read_name order.  An *)
(* entry is a PEM public key, a file that is not one ("garbage"), or a     *)
(* name whose fopen fails with the errno it carries.                       *)
(***************************************************************************)
KeyDirEntries ==
  { [kind |-> "pem", key |-> k] : k \in {K1, K2} }
  \cup { [kind |-> "garbage"] }
  \cup { [kind |-> "fopen_fails", errno |-> e] : e \in {"NOENT", "ISDIR", "ACCES"} }

\* Returns [pkey, error]: pkey is NULL and error the G_FILE_ERROR code on failure.
load_pub_key(entry) ==
  IF entry.kind = "fopen_fails" THEN [pkey |-> NULL_KEY, error |-> entry.errno]
  ELSE IF entry.kind = "garbage" THEN [pkey |-> NULL_KEY, error |-> "INVAL"]
  ELSE [pkey |-> entry.key, error |-> "none"]

\* A plausible slip: every failure of load_pub_key is skipped.
RECURSIVE LoadKeysLoopSkipAll(_, _)
LoadKeysLoopSkipAll(entries, keys) ==
  IF entries = <<>> THEN [ret |-> TRUE, keys |-> keys]
  ELSE LET r == load_pub_key(Head(entries))
       IN IF r.pkey = NULL_KEY THEN LoadKeysLoopSkipAll(Tail(entries), keys)
          ELSE LoadKeysLoopSkipAll(Tail(entries), <<r.pkey>> \o keys)

\* The loop over the directory (lines 147-166); keys are prepended.
RECURSIVE LoadKeysLoop(_, _)
LoadKeysLoop(entries, keys) ==
  IF entries = <<>> THEN [ret |-> TRUE, keys |-> keys]
  ELSE LET r == load_pub_key(Head(entries))
       IN IF r.pkey = NULL_KEY
          THEN IF r.error # "NOENT" /\ r.error # "ISDIR"
               THEN [ret |-> FALSE, keys |-> <<>>]
               ELSE LoadKeysLoop(Tail(entries), keys)
          ELSE LoadKeysLoop(Tail(entries), <<r.pkey>> \o keys)

\* Returns [ret, keys]; keys is *out_keys (left empty on failure).
load_pub_keys_from_dir(key_dir) ==
  IF key_dir.open = "NOENT" THEN [ret |-> TRUE, keys |-> <<>>]
  ELSE IF key_dir.open # "ok" THEN [ret |-> FALSE, keys |-> <<>>]
  ELSE LoadKeysLoop(key_dir.entries, <<>>)


(***************************************************************************)
(* The file tree.  fs maps every path of FsPaths to an entry               *)
(* [type, data, access]: type is "none" for a path that does not exist;    *)
(* data is the file's bytes or the link's target; access is what opening   *)
(* the entry gives after lstat has succeeded ("ok", "ACCES", or "NOENT"    *)
(* for a directory removed in between).                                    *)
(***************************************************************************)
SIG_SUFFIX == <<46, 115, 105, 103>>

R == <<SLASH, 114>>
A == R \o <<SLASH, 97>>
E == R \o <<SLASH, 101>>
C == R \o <<SLASH, 99>>
X == C \o <<SLASH, 120>>
ESIG == E \o SIG_SUFFIX
Y == ESIG \o <<SLASH, 121>>

FsPaths == {R, A, E, C, X, ESIG, Y} \cup { p \o SIG_SUFFIX : p \in {A, C, X, ESIG, Y} }

Absent == [type |-> "none", data |-> <<>>, access |-> "ok"]

Lookup(tree, path) == IF path \in DOMAIN tree THEN tree[path] ELSE Absent

g_str_has_suffix(str, suffix) ==
  Len(str) >= Len(suffix) /\ SubSeq(str, Len(str) - Len(suffix) + 1, Len(str)) = suffix

g_strconcat(a, b) == a \o b

g_build_filename(dir, name) == dir \o <<SLASH>> \o name

\* Position of the last '/' of a canonical absolute path.
LastSlash(path) == CHOOSE i \in 1..Len(path) :
                     path[i] = SLASH /\ \A j \in (i + 1)..Len(path) : path[j] # SLASH

g_path_get_dirname(path) ==
  IF LastSlash(path) = 1 THEN <<SLASH>> ELSE SubSeq(path, 1, LastSlash(path) - 1)

Basename(path) == SubSeq(path, LastSlash(path) + 1, Len(path))

\* The names g_dir_read_name returns for an opened directory.
DirNames(tree, path) ==
  { Basename(q) : q \in { q \in DOMAIN tree :
                            tree[q].type # "none" /\ g_path_get_dirname(q) = path } }

\* g_file_test: symlinks in this tree are dangling, so a link is neither.
g_file_test_exists(tree, path) == Lookup(tree, path).type \notin {"none", S_IFLNK}
g_file_test_is_dir(tree, path) == Lookup(tree, path).type = S_IFDIR

(***************************************************************************)
(* sha512_file and load_file_data_for_sign, src/utils.c:253-368.  The      *)
(* digest is a collision-free stand-in of fixed length for the file        *)
(* contents of this tree (at most one byte long).                          *)
(***************************************************************************)
Sha512(data) == <<Len(data), IF Len(data) = 0 THEN NUL ELSE data[1]>>

\* Returns [ok, content]: the digest of a regular file, the target of a link.
load_file_data_for_sign(st) ==
  IF st.type # S_IFREG /\ st.type # S_IFLNK THEN [ok |-> FALSE, content |-> <<>>]
  ELSE IF st.type = S_IFREG
       THEN IF st.access # "ok" THEN [ok |-> FALSE, content |-> <<>>]
            ELSE [ok |-> TRUE, content |-> Sha512(st.data)]
       ELSE [ok |-> TRUE, content |-> st.data]

(***************************************************************************)
(* opt_get_relative_path (declared in main.h): the path relative to        *)
(* relative_to by path segments, NULL when path is not under relative_to   *)
(* or, with a prefix set, when the relative path is not under the prefix.  *)
(***************************************************************************)
RECURSIVE JoinSegments(_)
JoinSegments(segs) ==
  IF segs = <<>> THEN <<>>
  ELSE IF Len(segs) = 1 THEN segs[1]
  ELSE segs[1] \o <<SLASH>> \o JoinSegments(Tail(segs))

opt_get_relative_path(path, relative_to, path_prefix) ==
  IF ~has_path_prefix(path, relative_to) THEN NULL
  ELSE LET rel == JoinSegments(SubSeq(Segments(path), Len(Segments(relative_to)) + 1,
                                      Len(Segments(path))))
       IN IF path_prefix # NULL /\ ~has_path_prefix(rel, path_prefix) THEN NULL ELSE rel

(***************************************************************************)
(* The walks: sign (src/sign.c:24-114) and validate (src/validate.c:      *)
(* 24-116).  A walk takes and returns w = [ok, fs, visits, writes]: the    *)
(* tree, the entries visited so far with their results, and the envelopes  *)
(* written so far.                                                         *)
(***************************************************************************)
Visited(w, path, type, ok, step) ==
  [w EXCEPT !.ok = ok,
            !.visits = @ \cup {[path |-> path, type |-> type, ok |-> ok, step |-> step]}]

\* The children a directory walk recurses into (sign.c:99, validate.c:101).
EveryChild(names) == names

ChildrenToVisit(names) == { n \in names : ~g_str_has_suffix(n, SIG_SUFFIX) }

\* g_file_set_contents: the envelope replaces what is at sig_path by a rename, which
\* fails over a directory.
g_file_set_contents(tree, sig_path, bytes) ==
  IF Lookup(tree, sig_path).type = S_IFDIR THEN NULL
  ELSE [tree EXCEPT ![sig_path] = [type |-> S_IFREG, data |-> bytes, access |-> "ok"]]

\* A plausible slip: the "already signed" test ignores opt_force.
AlreadySignedIgnoreForce(opts, tree, sig_path) == g_file_test_exists(tree, sig_path)

\* The "already signed" test (sign.c:43).
AlreadySigned(opts, tree, sig_path) == ~opts.force /\ g_file_test_exists(tree, sig_path)

\* The regular file / symlink branch of sign (sign.c:39-83).
SignLeaf(path, relative_to, opts, w) ==
  LET st == Lookup(w.fs, path)
      sig_path == g_strconcat(path, SIG_SUFFIX)
      loaded == load_file_data_for_sign(st)
      rel_path == opt_get_relative_path(path, relative_to, opts.path_prefix)
      signature == sign_data(st.type, rel_path, loaded.content, opts.private_key)
      written == g_file_set_contents(w.fs, sig_path, signature)
  IN IF AlreadySigned(opts, w.fs, sig_path)
     THEN Visited(w, path, st.type, TRUE, "already_signed")
     ELSE IF ~loaded.ok THEN Visited(w, path, st.type, FALSE, "read_failed")
     ELSE IF rel_path = NULL THEN Visited(w, path, st.type, FALSE, "not_inside")
     ELSE IF signature = NULL THEN Visited(w, path, st.type, FALSE, "sign_failed")
     ELSE IF written = NULL THEN Visited(w, path, st.type, FALSE, "write_failed")
     ELSE [Visited(w, path, st.type, TRUE, "wrote") EXCEPT
             !.fs = written,
             !.writes = @ \cup {[path |-> path, sig_path |-> sig_path, type |-> st.type,
                                 data |-> st.data, rel_path |-> rel_path,
                                 key |-> opts.private_key, envelope |-> signature]}]

\* The regular file / symlink branch of validate (validate.c:39-84).
ValidateLeaf(path, relative_to, opts, w) ==
  LET st == Lookup(w.fs, path)
      sig_path == g_strconcat(path, SIG_SUFFIX)
      sigst == Lookup(w.fs, sig_path)
      loaded == load_file_data_for_sign(st)
      rel_path == opt_get_relative_path(path, relative_to, opts.path_prefix)
  IN IF sigst.type = "none" THEN Visited(w, path, st.type, FALSE, "no_signature")
     ELSE IF sigst.type # S_IFREG \/ sigst.access # "ok"
          THEN Visited(w, path, st.type, FALSE, "load_failed")
     ELSE IF ~loaded.ok THEN Visited(w, path, st.type, FALSE, "read_failed")
     ELSE IF rel_path = NULL THEN Visited(w, path, st.type, FALSE, "not_inside")
     ELSE IF ~validate_data(rel_path, st.type, loaded.content, sigst.data,
                            opts.public_keys).ret
          THEN Visited(w, path, st.type, FALSE, "invalid")
     ELSE Visited(w, path, st.type, TRUE, "valid")

RECURSIVE sign(_, _, _, _)
RECURSIVE validate(_, _, _, _)

\* A plausible slip: the child loop stops at the first child that fails.
RECURSIVE SignChildrenStopAtFailure(_, _, _, _, _)
SignChildrenStopAtFailure(names, path, relative_to, opts, w) ==
  IF names = {} THEN [w EXCEPT !.ok = TRUE]
  ELSE LET child == CHOOSE n \in names : TRUE
           r == sign(g_build_filename(path, child), relative_to, opts, w)
       IN IF ~r.ok THEN r
          ELSE SignChildrenStopAtFailure(names \ {child}, path, relative_to, opts, r)

\* The loop over the children of an opened directory (sign.c:96-105).
RECURSIVE SignChildren(_, _, _, _, _)
SignChildren(names, path, relative_to, opts, w) ==
  IF names = {} THEN [w EXCEPT !.ok = TRUE]
  ELSE LET child == CHOOSE n \in names : TRUE
           r == sign(g_build_filename(path, child), relative_to, opts, w)
           rest == SignChildren(names \ {child}, path, relative_to, opts, r)
       IN [rest EXCEPT !.ok = r.ok /\ rest.ok]

\* The loop over the children of an opened directory (validate.c:98-107).
RECURSIVE ValidateChildren(_, _, _, _, _)
ValidateChildren(names, path, relative_to, opts, w) ==
  IF names = {} THEN [w EXCEPT !.ok = TRUE]
  ELSE LET child == CHOOSE n \in names : TRUE
           r == validate(g_build_filename(path, child), relative_to, opts, w)
           rest == ValidateChildren(names \ {child}, path, relative_to, opts, r)
       IN [rest EXCEPT !.ok = r.ok /\ rest.ok]

\* A plausible slip: a directory that is gone when it is opened counts as a failure.
DirOpenErrorNeverNoent(st) == FALSE

\* g_error_matches (dir_error, G_FILE_ERROR, G_FILE_ERROR_NOENT) after g_dir_open
\* returned NULL (sign.c:90, validate.c:91).
DirOpenErrorIsNoent(st) == st.access = "NOENT"

sign(path, relative_to, opts, w) ==
  LET st == Lookup(w.fs, path)
  IN IF st.type = "none" THEN Visited(w, path, st.type, FALSE, "missing")
     ELSE IF st.type = S_IFREG \/ st.type = S_IFLNK
          THEN SignLeaf(path, relative_to, opts, w)
     ELSE IF st.type = S_IFDIR
          THEN IF st.access # "ok" /\ DirOpenErrorIsNoent(st)
               THEN Visited(w, path, st.type, TRUE, "dir_noent")
               ELSE IF st.access # "ok" THEN Visited(w, path, st.type, FALSE, "dir_failed")
               ELSE LET r == SignChildren(ChildrenToVisit(DirNames(w.fs, path)), path,
                                          relative_to, opts, w)
                    IN Visited(r, path, st.type, r.ok, "dir")
     ELSE Visited(w, path, st.type, FALSE, "unsupported")

validate(path, relative_to, opts, w) ==
  LET st == Lookup(w.fs, path)
  IN IF st.type = "none" THEN Visited(w, path, st.type, FALSE, "missing")
     ELSE IF st.type = S_IFREG \/ st.type = S_IFLNK
          THEN ValidateLeaf(path, relative_to, opts, w)
     ELSE IF st.type = S_IFDIR
          THEN IF st.access # "ok" /\ DirOpenErrorIsNoent(st)
               THEN Visited(w, path, st.type, TRUE, "dir_noent")
               ELSE IF st.access # "ok" THEN Visited(w, path, st.type, FALSE, "dir_failed")
               ELSE LET r == ValidateChildren(ChildrenToVisit(DirNames(w.fs, path)), path,
                                              relative_to, opts, w)
                    IN Visited(r, path, st.type, r.ok, "dir")
     ELSE Visited(w, path, st.type, FALSE, "unsupported")

(***************************************************************************)
(* State.  hp, mb, vd and kd hold the last call of has_path_prefix,        *)
(* make_sign_blob, validate_data and load_pub_keys_from_dir: its arguments *)
(* and what it returned.                                                   *)
(***************************************************************************)
VARIABLES hp, mb, vd, kd

(***************************************************************************)
(* fs is the file tree, opts the option globals (opt_force, ...), run the  *)
(* position of cmd_sign / cmd_validate in its loop over argv, signed the   *)
(* last envelope sign wrote for each path (with what it was made from),    *)
(* used the number of outside changes so far, limit the number of root     *)
(* arguments a run takes.                                                  *)
(***************************************************************************)
VARIABLES fs, opts, run, signed, used, limit

pureVars == <<hp, mb, vd, kd>>
walkVars == <<fs, opts, run, signed, used, limit>>
vars == <<hp, mb, vd, kd, fs, opts, run, signed, used, limit>>

NoCall == [called |-> FALSE]

PathChars == {SLASH, 97, 98}
BlobPathChars == {SLASH, 97}
BlobContentBytes == {NUL, 1, 97}

HasPathPrefixArgs ==
  { [called |-> FALSE, str |-> str, prefix |-> prefix, ret |-> FALSE] :
      str \in SeqsUpTo(PathChars, MaxStrLen), prefix \in SeqsUpTo(PathChars, MaxPrefixLen) }

HasPathPrefixCall ==
  /\ ~hp.called
  /\ hp' = [hp EXCEPT !.called = TRUE, !.ret = has_path_prefix(hp.str, hp.prefix)]
  /\ UNCHANGED <<mb, vd, kd, walkVars>>

MakeSignBlobArgs ==
  { [called |-> FALSE, rel_path |-> rel_path, type |-> type, content |-> content,
     ret |-> NULL] :
      rel_path \in SeqsUpTo(BlobPathChars, MaxBlobPath), type \in FileTypes,
      content \in SeqsUpTo(BlobContentBytes, MaxBlobContent) }

MakeSignBlobCall ==
  /\ ~mb.called
  /\ mb' = [mb EXCEPT !.called = TRUE,
                      !.ret = make_sign_blob(mb.rel_path, mb.type, mb.content)]
  /\ UNCHANGED <<hp, vd, kd, walkVars>>

\* Envelopes handed to validate_data: made by sign_data for this or another
\* content, cut short, or with a byte of the magic changed.
VdContents == {<<1>>, <<2>>}
VdEnvelopes(rel_path, type) ==
  LET made == { sign_data(type, rel_path, c, k) : c \in VdContents, k \in {K1, K2} }
  IN made \cup { <<>>, <<86>> } \cup { [e EXCEPT ![2] = 84] : e \in made }

ValidateDataArgs ==
  UNION { { [called |-> FALSE, rel_path |-> <<97>>, type |-> type, content |-> content,
             sig |-> sig, pub_keys |-> pub_keys, ret |-> [ret |-> FALSE, error |-> "none"]] :
              sig \in VdEnvelopes(<<97>>, type) } :
          type \in {S_IFREG, S_IFLNK}, content \in VdContents,
          pub_keys \in SeqsUpTo(Keys, MaxKeys) }

ValidateDataCall ==
  /\ ~vd.called
  /\ vd' = [vd EXCEPT !.called = TRUE,
                      !.ret = validate_data(vd.rel_path, vd.type, vd.content, vd.sig,
                                            vd.pub_keys)]
  /\ UNCHANGED <<hp, mb, kd, walkVars>>

LoadPubKeysArgs ==
  { [called |-> FALSE, key_dir |-> [open |-> "ok", entries |-> entries],
     ret |-> [ret |-> FALSE, keys |-> <<>>]] :
      entries \in SeqsUpTo(KeyDirEntries, MaxDirEntries) }
  \cup { [called |-> FALSE, key_dir |-> [open |-> open, entries |-> <<>>],
          ret |-> [ret |-> FALSE, keys |-> <<>>]] : open \in {"NOENT", "ACCES"} }

LoadPubKeysCall ==
  /\ ~kd.called
  /\ kd' = [kd EXCEPT !.called = TRUE, !.ret = load_pub_keys_from_dir(kd.key_dir)]
  /\ UNCHANGED <<hp, mb, vd, walkVars>>

(***************************************************************************)
(* The runs.                                                               *)
(***************************************************************************)
NoWalk == [root |-> <<>>, relative_to |-> <<>>, ok |-> FALSE, pre |-> <<>>,
           visits |-> {}, writes |-> {}]

NoRun == [pc |-> "idle", cmd |-> "none", argv |-> <<>>, i |-> 1, res |-> TRUE,
          results |-> <<>>, exit |-> "none", last |-> NoWalk]

NotSigned == [type |-> "none"]

File(data) == [type |-> S_IFREG, data |-> data, access |-> "ok"]
Link(target) == [type |-> S_IFLNK, data |-> target, access |-> "ok"]
Dir == [type |-> S_IFDIR, data |-> <<>>, access |-> "ok"]

FileContents == {<<1>>, <<2>>}
LinkTargets == {<<116>>, <<117>>}

\* The trees a run starts from: /r holds the file a, the entry e (a file or a
\* fifo), the directory c with the link x, and e.sig (absent, a file, or a directory
\* holding the unreadable file y).
InitialTrees ==
  { [p \in FsPaths |->
       IF p = R THEN Dir
       ELSE IF p = A THEN File(<<1>>)
       ELSE IF p = E THEN e
       ELSE IF p = C THEN Dir
       ELSE IF p = X THEN Link(<<116>>)
       ELSE IF p = ESIG THEN esig
       ELSE IF p = Y /\ esig.type = S_IFDIR THEN [File(<<2>>) EXCEPT !.access = "ACCES"]
       ELSE Absent] :
      e \in {File(<<1>>), [type |-> S_IFIFO, data |-> <<>>, access |-> "ok"]},
      esig \in {Absent, File(<<2>>), Dir} }

Opt(force, recursive, private_key, public_keys, path_relative) ==
  [force |-> force, recursive |-> recursive, private_key |-> private_key,
   public_keys |-> public_keys, path_relative |-> path_relative, path_prefix |-> NULL]

\* The option settings of a run: the plain one (K1 signs, K2 and K1 are trusted),
\* and that one with overwrite on, with recursion off, with a trusted key the
\* engine cannot use, with a private key the engine cannot use, and with the
\* relative root /r/c.
Options ==
  { Opt(FALSE, TRUE, K1, <<K2, K1>>, NULL),
    Opt(TRUE, TRUE, K1, <<K2, K1>>, NULL),
    Opt(FALSE, FALSE, K1, <<K2, K1>>, NULL),
    Opt(FALSE, TRUE, K1, <<K3, K1>>, NULL),
    Opt(TRUE, TRUE, K3, <<K2, K1>>, NULL),
    Opt(FALSE, TRUE, K1, <<K2, K1>>, C) }

RootArgs == {R, A, C, ESIG}

Init ==
  /\ hp = NoCall /\ mb = NoCall /\ vd = NoCall /\ kd = NoCall
  /\ fs \in InitialTrees
  /\ opts \in Options
  /\ run = NoRun
  /\ signed = [p \in FsPaths |-> NotSigned]
  /\ used = [changes |-> 0]
  /\ limit = [roots |-> 1]

\* Runs over several root arguments.
RunInit ==
  /\ hp = NoCall /\ mb = NoCall /\ vd = NoCall /\ kd = NoCall
  /\ fs \in InitialTrees
  /\ opts \in Options
  /\ run = NoRun
  /\ signed = [p \in FsPaths |-> NotSigned]
  /\ used = [changes |-> 0]
  /\ limit = [roots |-> MaxRoots]

\* The trees of the runs that meet directories that cannot be opened: /r and /r/c
\* open, or are gone by the time they are opened ("NOENT"), or /r/c is unreadable
\* ("ACCES"); e is a file or absent, and e.sig is absent or a directory holding the
\* file y.
DirTrees ==
  { [p \in FsPaths |->
       IF p = R THEN [Dir EXCEPT !.access = racc]
       ELSE IF p = A THEN File(<<1>>)
       ELSE IF p = E THEN e
       ELSE IF p = C THEN [Dir EXCEPT !.access = cacc]
       ELSE IF p = X THEN Link(<<116>>)
       ELSE IF p = ESIG THEN esig
       ELSE IF p = Y /\ esig.type = S_IFDIR THEN File(<<2>>)
       ELSE Absent] :
      racc \in {"ok", "NOENT"}, cacc \in {"ok", "NOENT", "ACCES"},
      e \in {File(<<1>>), Absent}, esig \in {Absent, Dir} }

\* Runs of one root argument each over the trees of DirTrees.
DirInit ==
  /\ hp = NoCall /\ mb = NoCall /\ vd = NoCall /\ kd = NoCall
  /\ fs \in DirTrees
  /\ opts \in Options
  /\ run = NoRun
  /\ signed = [p \in FsPaths |-> NotSigned]
  /\ used = [changes |-> 0]
  /\ limit = [roots |-> 1]

WalkIdle ==
  /\ fs = [p \in FsPaths |-> Absent]
  /\ opts = Opt(FALSE, FALSE, K1, <<K1>>, NULL)
  /\ run = NoRun
  /\ signed = [p \in FsPaths |-> NotSigned]
  /\ used = [changes |-> 0]
  /\ limit = [roots |-> 0]

\* cmd_sign / cmd_validate entered with argv[1..] = argv (sign.c:117-125).
CmdStart ==
  /\ run.pc \in {"idle", "exited"}
  /\ \E cmd \in {"sign", "validate"}, argv \in SeqsUpTo(RootArgs, limit.roots) :
       /\ Len(argv) >= 1
       /\ run' = [NoRun EXCEPT !.pc = "running", !.cmd = cmd, !.argv = argv]
  /\ UNCHANGED <<fs, opts, signed, used, limit, pureVars>>

\* The loop meets a directory outside recursive mode and returns EXIT_FAILURE
\* (sign.c:131-137, validate.c:133-139).
CmdRejectDirectory ==
  /\ run.pc = "running" /\ run.i <= Len(run.argv)
  /\ g_file_test_is_dir(fs, run.argv[run.i])
  /\ ~opts.recursive
  /\ run' = [run EXCEPT !.pc = "exited", !.exit = "EXIT_FAILURE"]
  /\ UNCHANGED <<fs, opts, signed, used, limit, pureVars>>

\* relative_to for the root argv[i] (sign.c:139,144-146).
RootRelativeTo(path) ==
  IF opts.path_relative # NULL THEN opts.path_relative
  ELSE IF g_file_test_is_dir(fs, path) THEN path
  ELSE g_path_get_dirname(path)

WalkStart == [ok |-> TRUE, fs |-> fs, visits |-> {}, writes |-> {}]

\* A plausible slip: the result of the last root replaces the results before it.
RunResultLastWins(res, ok) == ok

\* res after one root (sign.c:139-140,146-147).
RunResult(res, ok) == IF ~ok THEN FALSE ELSE res

AfterRoot(path, w) ==
  [run EXCEPT !.i = @ + 1,
              !.res = RunResult(run.res, w.ok),
              !.results = Append(@, w.ok),
              !.last = [root |-> path, relative_to |-> RootRelativeTo(path), ok |-> w.ok,
                        pre |-> fs, visits |-> w.visits, writes |-> w.writes]]

\* One iteration of cmd_sign's loop: sign the root argv[i] (sign.c:126-149).
CmdSignRoot ==
  /\ run.pc = "running" /\ run.cmd = "sign" /\ run.i <= Len(run.argv)
  /\ g_file_test_is_dir(fs, run.argv[run.i]) => opts.recursive
  /\ LET path == run.argv[run.i]
         w == sign(path, RootRelativeTo(path), opts, WalkStart)
     IN /\ fs' = w.fs
        /\ run' = AfterRoot(path, w)
        /\ signed' = [p \in FsPaths |->
                        IF \E wr \in w.writes : wr.path = p
                        THEN CHOOSE wr \in w.writes : wr.path = p
                        ELSE signed[p]]
  /\ UNCHANGED <<opts, used, limit, pureVars>>

\* One iteration of cmd_validate's loop: validate the root argv[i] (validate.c:128-151).
CmdValidateRoot ==
  /\ run.pc = "running" /\ run.cmd = "validate" /\ run.i <= Len(run.argv)
  /\ g_file_test_is_dir(fs, run.argv[run.i]) => opts.recursive
  /\ LET path == run.argv[run.i]
         w == validate(path, RootRelativeTo(path), opts, WalkStart)
     IN run' = AfterRoot(path, w)
  /\ UNCHANGED <<fs, opts, signed, used, limit, pureVars>>

\* The loop is over: the exit status (sign.c:151, validate.c:153).
CmdReturn ==
  /\ run.pc = "running" /\ run.i > Len(run.argv)
  /\ run' = [run EXCEPT !.pc = "exited",
                        !.exit = IF run.res THEN "EXIT_SUCCESS" ELSE "EXIT_FAILURE"]
  /\ UNCHANGED <<fs, opts, signed, used, limit, pureVars>>

(***************************************************************************)
(* Changes made to the tree from outside, between runs.                    *)
(***************************************************************************)
\* The content of a regular file, or the target of a link, is changed.
EnvChangeContent ==
  /\ run.pc \in {"idle", "exited"}
  /\ used.changes < MaxChanges
  /\ \E p \in {A, X} :
       \E d \in (IF fs[p].type = S_IFREG THEN FileContents
                 ELSE IF fs[p].type = S_IFLNK THEN LinkTargets ELSE {}) :
         /\ d # fs[p].data
         /\ fs' = [fs EXCEPT ![p].data = d]
  /\ run' = NoRun
  /\ used' = [used EXCEPT !.changes = @ + 1]
  /\ UNCHANGED <<opts, signed, limit, pureVars>>

\* One byte of an envelope that sign wrote is overwritten with 0xff, a byte no
\* envelope of this tree holds: whoever changes the tree cannot forge a signature.
EnvCorruptEnvelope ==
  /\ run.pc \in {"idle", "exited"}
  /\ used.changes < MaxChanges
  /\ \E p \in {A, X} :
       /\ signed[p] # NotSigned
       /\ fs[signed[p].sig_path].type = S_IFREG
       /\ \E i \in 1..Len(fs[signed[p].sig_path].data) :
            /\ fs[signed[p].sig_path].data[i] # 255
            /\ fs' = [fs EXCEPT ![signed[p].sig_path].data[i] = 255]
  /\ run' = NoRun
  /\ used' = [used EXCEPT !.changes = @ + 1]
  /\ UNCHANGED <<opts, signed, limit, pureVars>>

Next ==
  \/ CmdStart
  \/ CmdRejectDirectory
  \/ CmdSignRoot
  \/ CmdValidateRoot
  \/ CmdReturn
  \/ EnvChangeContent
  \/ EnvCorruptEnvelope

\* The runs alone, with nothing changed from outside.
NextRun ==
  \/ CmdStart
  \/ CmdRejectDirectory
  \/ CmdSignRoot
  \/ CmdValidateRoot
  \/ CmdReturn

\* Runs of one root argument each, with changes from outside in between.
Spec == Init /\ [][Next]_vars

SpecRun == RunInit /\ [][NextRun]_vars

\* Runs of one root argument each over trees with directories that do not open.
SpecDir == DirInit /\ [][NextRun]_vars

PrefixInit == WalkIdle /\ hp \in HasPathPrefixArgs /\ mb = NoCall /\ vd = NoCall /\ kd = NoCall
BlobInit == WalkIdle /\ hp = NoCall /\ mb \in MakeSignBlobArgs /\ vd = NoCall /\ kd = NoCall
VerifyInit == WalkIdle /\ hp = NoCall /\ mb = NoCall /\ vd \in ValidateDataArgs /\ kd = NoCall
KeysInit == WalkIdle /\ hp = NoCall /\ mb = NoCall /\ vd = NoCall /\ kd \in LoadPubKeysArgs

SpecPrefix == PrefixInit /\ [][HasPathPrefixCall]_vars
SpecBlob == BlobInit /\ [][MakeSignBlobCall]_vars
SpecVerify == VerifyInit /\ [][ValidateDataCall]_vars
SpecKeys == KeysInit /\ [][LoadPubKeysCall]_vars


(***************************************************************************)
(* Properties of has_path_prefix (SpecPrefix).                             *)
(***************************************************************************)
\* C7: has_path_prefix(str, prefix) is true exactly when the non-empty segments of
\* prefix are a prefix of the non-empty segments of str.
C7_PrefixBySegments ==
  hp.called => (hp.ret <=> IsPrefixSeq(Segments(hp.prefix), Segments(hp.str)))

\* C7 witness: prefix is a string prefix of str that ends inside a segment of str
\* (as /a/bc against /a/bcd), and the call returned false.
C7_Witness ==
  /\ hp.called /\ ~hp.ret
  /\ Len(hp.prefix) > 0 /\ Len(hp.prefix) < Len(hp.str)
  /\ IsPrefixSeq(hp.prefix, hp.str)
  /\ hp.prefix[Len(hp.prefix)] # SLASH /\ hp.str[Len(hp.prefix) + 1] # SLASH

(***************************************************************************)
(* Properties of make_sign_blob (SpecBlob).                                *)
(***************************************************************************)
\* C8: the blob is tag byte (0 regular file, 1 symlink), path bytes, one 0x00, content
\* bytes, of length 1 + len(path) + 1 + len(content); the call fails exactly when the
\* type is neither regular file nor symlink.
C8_BlobLayout ==
  mb.called =>
    IF mb.type \in {S_IFREG, S_IFLNK}
    THEN /\ mb.ret = <<IF mb.type = S_IFREG THEN 0 ELSE 1>> \o mb.rel_path \o <<0>>
                       \o mb.content
         /\ Len(mb.ret) = 1 + Len(mb.rel_path) + 1 + Len(mb.content)
    ELSE mb.ret = NULL

\* C8 witness: a symlink blob with a non-empty path and a non-empty content was built.
C8_Witness ==
  /\ mb.called /\ mb.type = S_IFLNK /\ mb.ret # NULL
  /\ Len(mb.rel_path) > 0 /\ Len(mb.content) > 0

(***************************************************************************)
(* Properties of validate_data (SpecVerify).                               *)
(***************************************************************************)
VdHasMagic ==
  /\ Len(vd.sig) >= VALIDATOR_SIGNATURE_MAGIC_LEN
  /\ SubSeq(vd.sig, 1, VALIDATOR_SIGNATURE_MAGIC_LEN) = VALIDATOR_SIGNATURE_MAGIC

VdBody == SubSeq(vd.sig, VALIDATOR_SIGNATURE_MAGIC_LEN + 1, Len(vd.sig))

VdBlob == <<IF vd.type = S_IFREG THEN 0 ELSE 1>> \o vd.rel_path \o <<0>> \o vd.content

\* The trial of one key on the envelope: "valid", "invalid" or "engine_error".
VdTrial(key) ==
  IF EVP_DigestVerifyInit(key) = 0 THEN "engine_error"
  ELSE IF EVP_DigestVerify(key, VdBody, VdBlob) = 1 THEN "valid"
  ELSE IF EVP_DigestVerify(key, VdBody, VdBlob) = 0 THEN "invalid"
  ELSE "engine_error"

\* C3 as stated: validate_data succeeds exactly when some key of the list validates
\* the envelope, whatever the trials of the keys before it gave.
C3_AnyKeyWhateverEarlier ==
  vd.called =>
    (vd.ret.ret <=>
       (VdHasMagic /\ \E i \in 1..Len(vd.pub_keys) : VdTrial(vd.pub_keys[i]) = "valid"))

\* C3 amended: validate_data succeeds exactly when some key of the list validates the
\* envelope and every key before it merely failed to validate (no engine error).
C3_AnyKeyUnlessEngineError ==
  vd.called =>
    (vd.ret.ret <=>
       (VdHasMagic /\ \E i \in 1..Len(vd.pub_keys) :
          /\ VdTrial(vd.pub_keys[i]) = "valid"
          /\ \A j \in 1..(i - 1) : VdTrial(vd.pub_keys[j]) = "invalid"))

\* C3 witness: the call succeeded on a later key after an earlier key failed to validate.
C3_Witness ==
  /\ vd.called /\ vd.ret.ret
  /\ Len(vd.pub_keys) >= 2
  /\ VdTrial(vd.pub_keys[1]) = "invalid"

(***************************************************************************)
(* Properties of load_pub_keys_from_dir (SpecKeys).                        *)
(***************************************************************************)
RECURSIVE Reverse(_)
Reverse(s) == IF s = <<>> THEN <<>> ELSE Append(Reverse(Tail(s)), Head(s))

RECURSIVE PemKeys(_)
PemKeys(entries) ==
  IF entries = <<>> THEN <<>>
  ELSE (IF Head(entries).kind = "pem" THEN <<Head(entries).key>> ELSE <<>>)
       \o PemKeys(Tail(entries))

KdEntries == kd.key_dir.entries

\* An access error that is neither "not found" nor "is a directory".
KdAccessError ==
  \/ kd.key_dir.open = "ACCES"
  \/ \E i \in 1..Len(KdEntries) :
       KdEntries[i].kind = "fopen_fails" /\ KdEntries[i].errno = "ACCES"

KdParseFailure == \E i \in 1..Len(KdEntries) : KdEntries[i].kind = "garbage"

\* C9 as stated: a file that fails to parse is skipped, the load succeeds with the keys
\* that did parse, and the load fails only on a non-trivial access error.
C9_ParseFailureSkipped ==
  kd.called =>
    /\ kd.ret.ret <=> ~KdAccessError
    /\ kd.ret.ret => kd.ret.keys = Reverse(PemKeys(KdEntries))

\* C9 amended: an entry whose open fails with "not found" or "is a directory" is
\* skipped; the load fails on any other access error and on any file that opens but
\* does not parse as a public key; on success the keys are those that parsed.
C9_OnlyNoentIsdirSkipped ==
  kd.called =>
    /\ kd.ret.ret <=> (~KdAccessError /\ ~KdParseFailure)
    /\ kd.ret.ret => kd.ret.keys = Reverse(PemKeys(KdEntries))

\* C9 witness: a load succeeded with a key although another entry was skipped.
C9_Witness ==
  /\ kd.called /\ kd.ret.ret /\ kd.ret.keys # <<>>
  /\ \E i \in 1..Len(KdEntries) : KdEntries[i].kind = "fopen_fails"


(***************************************************************************)
(* Properties of the walks (Spec).  They are stated on run.last, the walk  *)
(* of the root argument the run has just finished: pre is the tree before  *)
(* it, fs the tree after it.                                               *)
(***************************************************************************)
LastWalk == run.last

LeafVisits == { v \in LastWalk.visits : v.type \in {S_IFREG, S_IFLNK} }

SigPathOf(path) == path \o SIG_SUFFIX

\* The relative path the last walk used for a leaf.
RelPathNow(path) == opt_get_relative_path(path, LastWalk.relative_to, opts.path_prefix)

\* The leaf at path is as it was when sign wrote its envelope, and so is the envelope.
SignedAndUnchanged(path) ==
  /\ signed[path] # NotSigned
  /\ fs[path].type = signed[path].type
  /\ fs[path].data = signed[path].data
  /\ RelPathNow(path) = signed[path].rel_path
  /\ Lookup(fs, SigPathOf(path)) = File(signed[path].envelope)

\* The trial of a key ends in an engine failure, whatever the signature.
EngineFails(key) == EVP_DigestVerifyInit(key) = 0 \/ EVP_DigestVerify(key, <<>>, <<>>) < 0

\* C1 as stated: a leaf that is as it was signed validates whenever the trusted list
\* holds the public key of the signing key.
C1_RoundTripAnyTrustedList ==
  run.cmd = "validate" =>
    \A v \in LeafVisits :
      (/\ SignedAndUnchanged(v.path)
       /\ \E i \in 1..Len(opts.public_keys) :
            opts.public_keys[i].id = signed[v.path].key.id)
      => v.ok

\* C1 amended: a leaf that is as it was signed validates whenever the trusted list
\* holds the public key of the signing key and no key before it in the list makes the
\* verification engine fail.
C1_RoundTrip ==
  run.cmd = "validate" =>
    \A v \in LeafVisits :
      (/\ SignedAndUnchanged(v.path)
       /\ \E i \in 1..Len(opts.public_keys) :
            /\ opts.public_keys[i].id = signed[v.path].key.id
            /\ \A j \in 1..(i - 1) : ~EngineFails(opts.public_keys[j]))
      => v.ok

\* C1 witness: one validate walk accepted a regular file and a symlink, both as signed.
C1_Witness ==
  /\ run.cmd = "validate"
  /\ \E v \in LeafVisits : v.type = S_IFREG /\ v.ok /\ SignedAndUnchanged(v.path)
  /\ \E v \in LeafVisits : v.type = S_IFLNK /\ v.ok /\ SignedAndUnchanged(v.path)

\* C2: a signed leaf whose content or link target, relative path, or envelope differs
\* from what sign last used and wrote does not validate.
C2_TamperFails ==
  run.cmd = "validate" =>
    \A v \in LeafVisits :
      (/\ signed[v.path] # NotSigned
       /\ \/ fs[v.path].data # signed[v.path].data
          \/ RelPathNow(v.path) # signed[v.path].rel_path
          \/ Lookup(fs, SigPathOf(v.path)).data # signed[v.path].envelope)
      => ~v.ok

\* C2 witness: validate rejected a leaf whose envelope had one byte changed.
C2_Witness ==
  /\ run.cmd = "validate"
  /\ \E v \in LeafVisits :
       /\ signed[v.path] # NotSigned /\ ~v.ok
       /\ fs[v.path].data = signed[v.path].data
       /\ RelPathNow(v.path) = signed[v.path].rel_path
       /\ Lookup(fs, SigPathOf(v.path)).data # signed[v.path].envelope

\* The envelope sign computes for the leaf at path from the tree before the walk.
NewEnvelope(path) ==
  sign_data(LastWalk.pre[path].type, RelPathNow(path),
            load_file_data_for_sign(LastWalk.pre[path]).content, opts.private_key)

\* C4: signing a leaf whose envelope exists leaves the envelope as it was and succeeds
\* when overwrite is off; when overwrite is on and the leaf is signed, the envelope is
\* the newly computed one.
C4_IdempotentSigning ==
  run.cmd = "sign" =>
    \A v \in LeafVisits :
      g_file_test_exists(LastWalk.pre, SigPathOf(v.path)) =>
        IF ~opts.force
        THEN v.ok /\ fs[SigPathOf(v.path)] = LastWalk.pre[SigPathOf(v.path)]
        ELSE v.ok => fs[SigPathOf(v.path)] = File(NewEnvelope(v.path))

\* C4 witness: with overwrite off, sign met a leaf whose envelope was made for an
\* earlier content, and left it.
C4_Witness ==
  /\ run.cmd = "sign" /\ ~opts.force
  /\ \E v \in LeafVisits :
       /\ v.step = "already_signed"
       /\ signed[v.path] # NotSigned
       /\ fs[v.path].data # signed[v.path].data

\* With overwrite on, sign replaced an envelope made for an earlier content.
C4_ReplacedState ==
  /\ run.cmd = "sign" /\ opts.force
  /\ \E v \in LeafVisits :
       /\ v.step = "wrote"
       /\ g_file_test_exists(LastWalk.pre, SigPathOf(v.path))
       /\ fs[SigPathOf(v.path)] # LastWalk.pre[SigPathOf(v.path)]

\* The children of a directory whose names do not end in .sig.
UnsuffixedChildren(tree, dir) ==
  { g_build_filename(dir, n) : n \in { m \in DirNames(tree, dir) :
                                         ~g_str_has_suffix(m, SIG_SUFFIX) } }

\* The result of walking path on its own, from the tree before the last walk.
AloneOk(path) ==
  LET w0 == [ok |-> TRUE, fs |-> LastWalk.pre, visits |-> {}, writes |-> {}]
  IN IF run.cmd = "sign" THEN sign(path, LastWalk.relative_to, opts, w0).ok
     ELSE validate(path, LastWalk.relative_to, opts, w0).ok

VisitOf(path) == CHOOSE v \in LastWalk.visits : v.path = path

\* C5: in a directory the walk opened, every child whose name does not end in .sig is
\* visited, with the result it has on its own (a signed child has its envelope), and
\* the directory's result is the conjunction of its children's results.
C5_PartialFailureIsolation ==
  \A d \in LastWalk.visits :
    d.step = "dir" =>
      /\ \A k \in UnsuffixedChildren(LastWalk.pre, d.path) :
           /\ \E v \in LastWalk.visits : v.path = k
           /\ VisitOf(k).ok = AloneOk(k)
           /\ VisitOf(k).step = "wrote" =>
                Lookup(fs, SigPathOf(k)) = File(NewEnvelope(k))
      /\ d.ok = (\A k \in UnsuffixedChildren(LastWalk.pre, d.path) : VisitOf(k).ok)

\* C5 witness: a sign walk of a directory with three children, one of which failed
\* while the two others were signed, reported failure.
C5_Witness ==
  /\ run.cmd = "sign"
  /\ \E d \in LastWalk.visits :
       /\ d.step = "dir" /\ ~d.ok
       /\ Cardinality(UnsuffixedChildren(LastWalk.pre, d.path)) = 3
       /\ Cardinality({ k \in UnsuffixedChildren(LastWalk.pre, d.path) :
                          ~VisitOf(k).ok }) = 1
       /\ \E k \in UnsuffixedChildren(LastWalk.pre, d.path) : VisitOf(k).step = "wrote"

\* The tree changed only where the walk wrote the envelope <leaf>.sig of a leaf.
WritesAtSigPath ==
  \A p \in FsPaths :
    fs[p] # LastWalk.pre[p] =>
      \E v \in LeafVisits : v.step = "wrote" /\ p = v.path \o SIG_SUFFIX

\* C6 as stated: every envelope is written at <leaf>.sig, and no path whose name ends
\* in .sig is signed, verified or recursed into, a root argument included.
C6_NoSigPathVisited ==
  LastWalk.root # <<>> =>
    /\ WritesAtSigPath
    /\ \A v \in LastWalk.visits :
         v.type \in {S_IFREG, S_IFLNK, S_IFDIR} => ~g_str_has_suffix(v.path, SIG_SUFFIX)

\* C6 amended: every envelope is written at <leaf>.sig, and no path whose name ends in
\* .sig is signed, verified or recursed into when it is met in a directory; a root
\* argument is processed whatever its name.
C6_NoSigChildVisited ==
  LastWalk.root # <<>> =>
    /\ WritesAtSigPath
    /\ \A v \in LastWalk.visits :
         (v.type \in {S_IFREG, S_IFLNK, S_IFDIR} /\ v.path # LastWalk.root)
           => ~g_str_has_suffix(v.path, SIG_SUFFIX)
    /\ \E v \in LastWalk.visits : v.path = LastWalk.root

\* C6 witness: a sign walk of /r wrote an envelope and passed over the entry e.sig.
C6_Witness ==
  /\ run.cmd = "sign" /\ LastWalk.root = R
  /\ LastWalk.pre[ESIG].type # "none"
  /\ \E v \in LeafVisits : v.step = "wrote"
  /\ \A v \in LastWalk.visits : v.path # ESIG

(***************************************************************************)
(* Properties of a run over several roots (SpecRun).                       *)
(***************************************************************************)
AllRootsOk == \A i \in 1..Len(run.results) : run.results[i]

\* C10 as stated: every root argument is processed, and the run reports success
\* exactly when every root's walk returned success.
C10_EveryRootProcessed ==
  run.pc = "exited" =>
    /\ Len(run.results) = Len(run.argv)
    /\ run.exit = "EXIT_SUCCESS" <=> AllRootsOk

\* C10 amended: unless a root argument is a directory while recursive mode is off,
\* which ends the run at once with failure and leaves the later roots unprocessed,
\* every root is processed and the run reports success exactly when every root's walk
\* returned success.
C10_RunAggregation ==
  run.pc = "exited" =>
    IF \E i \in 1..Len(run.argv) : g_file_test_is_dir(fs, run.argv[i]) /\ ~opts.recursive
    THEN /\ run.exit = "EXIT_FAILURE"
         /\ Len(run.results) < Len(run.argv)
         /\ g_file_test_is_dir(fs, run.argv[Len(run.results) + 1])
         /\ \A i \in 1..Len(run.results) : ~g_file_test_is_dir(fs, run.argv[i])
    ELSE /\ Len(run.results) = Len(run.argv)
         /\ run.exit = "EXIT_SUCCESS" <=> AllRootsOk

\* C10 witness: a run ended in failure after a root that failed and a later root that
\* succeeded.
C10_Witness ==
  /\ run.pc = "exited" /\ run.exit = "EXIT_FAILURE"
  /\ Len(run.argv) = 2 /\ run.results = <<FALSE, TRUE>>

(***************************************************************************)
(* Properties of the directory branch of the walks (SpecDir).              *)
(***************************************************************************)
\* The directories the last walk tried to open and found gone.
NoentVisits == { v \in LastWalk.visits : v.type = S_IFDIR /\ LastWalk.pre[v.path].access = "NOENT" }

\* The visits of the entries directly inside the directory at path.
ChildVisits(path) == { c \in LastWalk.visits : g_path_get_dirname(c.path) = path }

\* C11 as stated: a directory whose open fails with "not found" is a success only when
\* it is the root argument of the walk; for a subdirectory it is a failure of that visit
\* and makes the result of the enclosing directory false.
C11_NotFoundOkOnlyForRoot ==
  \A v \in NoentVisits :
    /\ v.ok <=> v.path = LastWalk.root
    /\ v.path # LastWalk.root =>
         \A d \in LastWalk.visits : d.path = g_path_get_dirname(v.path) => ~d.ok

\* C11 amended: a directory whose open fails with "not found" is a success of that
\* visit, for the root argument and for a subdirectory alike, and leaves the result of
\* the enclosing directory to the other children; an open that fails for another
\* reason is a failure of the visit and of the enclosing directory.
C11_NotFoundIsSuccess ==
  /\ \A v \in NoentVisits :
       /\ v.ok /\ v.step = "dir_noent"
       /\ ChildVisits(v.path) = {}
       /\ \A d \in LastWalk.visits :
            d.path = g_path_get_dirname(v.path) =>
              (d.ok <=> \A c \in ChildVisits(d.path) : c.ok)
  /\ \A v \in LastWalk.visits :
       (v.type = S_IFDIR /\ LastWalk.pre[v.path].access = "ACCES") =>
         /\ ~v.ok /\ v.step = "dir_failed"
         /\ \A d \in LastWalk.visits : d.path = g_path_get_dirname(v.path) => ~d.ok

\* C11 witness: a walk of /r met the subdirectory /r/c gone, and still succeeded.
C11_Witness ==
  /\ LastWalk.root = R /\ LastWalk.ok
  /\ \E v \in NoentVisits : v.path = C /\ v.ok

\* A walk whose root argument was itself gone when opened succeeded.
C11_RootGoneState ==
  /\ LastWalk.root = R /\ LastWalk.ok
  /\ \E v \in NoentVisits : v.path = R

\* A walk of /r met the subdirectory /r/c unreadable and failed.
C11_UnreadableState ==
  /\ LastWalk.root = R /\ ~LastWalk.ok
  /\ \E v \in LastWalk.visits : v.path = C /\ v.step = "dir_failed"

(***************************************************************************)
(* Completeness of the validate walk (SpecDir).                            *)
(***************************************************************************)
\* The regular files and symlinks under the root of the last walk whose own name does
\* not end in .sig.
LeavesUnderRoot ==
  { p \in FsPaths :
      /\ LastWalk.pre[p].type \in {S_IFREG, S_IFLNK}
      /\ has_path_prefix(p, LastWalk.root)
      /\ ~g_str_has_suffix(p, SIG_SUFFIX) }

\* The leaf at path has an envelope that validates under the trusted keys.
EnvelopeValidates(path) ==
  LET st == LastWalk.pre[path]
      sigst == Lookup(LastWalk.pre, SigPathOf(path))
      loaded == load_file_data_for_sign(st)
  IN /\ sigst.type = S_IFREG /\ sigst.access = "ok"
     /\ loaded.ok
     /\ RelPathNow(path) # NULL
     /\ validate_data(RelPathNow(path), st.type, loaded.content, sigst.data,
                      opts.public_keys).ret

\* The recursive validate walk of a directory root has just returned success, and no
\* directory was removed while it ran.
ValidateWalkSucceeded ==
  /\ run.cmd = "validate" /\ LastWalk.root # <<>> /\ LastWalk.ok
  /\ LastWalk.pre[LastWalk.root].type = S_IFDIR
  /\ \A p \in FsPaths : LastWalk.pre[p].access # "NOENT"

\* Some directory between the root of the last walk and path, the root excluded, has
\* a name that ends in .sig.
InsideSigDirectory(path) ==
  \E d \in FsPaths :
    /\ d # LastWalk.root /\ d # path
    /\ LastWalk.pre[d].type = S_IFDIR
    /\ has_path_prefix(d, LastWalk.root) /\ has_path_prefix(path, d)
    /\ g_str_has_suffix(d, SIG_SUFFIX)

\* C12: when the recursive validate walk of a directory root returns success on a tree
\* that does not change, every regular file and symlink under the root whose name does
\* not end in .sig has an envelope that validates, leaves inside a subdirectory whose
\* name ends in .sig included.
C12_EveryLeafChecked ==
  ValidateWalkSucceeded => \A p \in LeavesUnderRoot : EnvelopeValidates(p)

\* What the walk does give: the leaves that are not inside a subdirectory whose name
\* ends in .sig are visited and have an envelope that validates.
C12_LeavesOutsideSigDirectories ==
  ValidateWalkSucceeded =>
    \A p \in LeavesUnderRoot :
      ~InsideSigDirectory(p) =>
        /\ \E v \in LeafVisits : v.path = p /\ v.ok
        /\ EnvelopeValidates(p)

\* A validate walk of /r succeeded over the signed leaves a and x.
C12_CheckedState ==
  /\ ValidateWalkSucceeded /\ LastWalk.root = R
  /\ {A, X} \subseteq LeavesUnderRoot
  /\ EnvelopeValidates(A) /\ EnvelopeValidates(X)

(***************************************************************************)
(* Injectivity of make_sign_blob (SpecBlob).                               *)
(***************************************************************************)
\* The inputs (type, relative path, content) of a regular file or a symlink; a relative
\* path is a C string and holds no 0x00 byte.
BlobInputs == { a \in MakeSignBlobArgs : a.type \in {S_IFREG, S_IFLNK} }

SameTriple(a, b) == a.type = b.type /\ a.rel_path = b.rel_path /\ a.content = b.content

\* C13: an input of a regular file or a symlink whose blob equals the blob of the call
\* is the same triple (type, relative path, content) as the input of the call.
C13_BlobInjective ==
  (mb.called /\ mb.type \in {S_IFREG, S_IFLNK}) =>
    \A b \in BlobInputs :
      make_sign_blob(b.rel_path, b.type, b.content) = mb.ret => SameTriple(b, mb)

\* C13 witness: a blob was built for a regular file whose content begins with a byte
\* that can stand in a path; the symlink of the same path and content, and the input
\* with that byte moved from the content to the end of the path, give other blobs.
C13_Witness ==
  /\ mb.called /\ mb.type = S_IFREG
  /\ Len(mb.rel_path) > 0 /\ Len(mb.content) > 1
  /\ mb.content[1] \in BlobPathChars
  /\ make_sign_blob(mb.rel_path, S_IFLNK, mb.content) # mb.ret
  /\ make_sign_blob(Append(mb.rel_path, mb.content[1]), mb.type, Tail(mb.content)) # mb.ret

=============================================================================
